---- MODULE Spec2Model ----
(***************************************************************************)
(* One invocation of one action of the onkernel example applications:     *)
(* bu-task, test-captcha-solver, cua-task, and the four actions that run  *)
(* their agent inside a KernelBrowserSession scope.  The platform and the *)
(* agent frameworks are external: every call to them either returns a     *)
(* value drawn from a small set or raises.                                *)
(***************************************************************************)
EXTENDS Integers, Sequences, FiniteSets, TLC

\* ------------------------------------------------------------------ values
\* Python values are encoded as strings so that any two can be compared.
None == "None"
Absent == "Absent"

\* bound: how many replays.list calls of one poll take a second to answer
\* (the others answer at once)
MaxSlowCalls == 1

SessionIds == {"s1", "s2"}
ReplayIds == {"r1", "r2"}
ReplayViewUrl == [r1 |-> "view-r1", r2 |-> "view-r2"]
LiveViewUrl == [s1 |-> "live-s1", s2 |-> "live-s2"]

WrapperActions == {"oagi-default-task", "oagi-tasker-task",
                   "openagi-default-task", "openagi-tasker-task"}
OpenagiActions == {"openagi-default-task", "openagi-tasker-task"}
TaskerActions == {"oagi-tasker-task", "openagi-tasker-task"}
Actions == WrapperActions \cup {"bu-task", "test-captcha-solver", "cua-task"}

\* Python truthiness of an encoded value ("[]" is the empty list).
Truthy(v) == v \notin {Absent, None, "", "False", "[]"}

\* isinstance(v, list) for the encoded todos values
IsList(v) == v \in {"[]", "list"}

PayloadKeys == {"task", "instruction", "todos", "model", "record_replay"}

\* `not payload`: None or the empty mapping
PayloadFalsy(p) == p.py = None \/ \A k \in PayloadKeys : p[k] = Absent

\* payload.get(k) and payload.get(k, default)
Get(p, k) == IF p[k] = Absent THEN None ELSE p[k]
GetDefault(p, k, d) == IF p[k] = Absent THEN d ELSE p[k]

\* The field an action requires to be non-empty.
RequiredField(a) ==
  IF a \in {"oagi-default-task", "openagi-default-task"} THEN "instruction" ELSE "task"

EmptyPayload ==
  [py |-> "dict", task |-> Absent, instruction |-> Absent, todos |-> Absent,
   model |-> Absent, record_replay |-> Absent]

\* The payloads an invoker can send to action a (fields a does not read are left out).
Payloads(a) ==
  IF a = "test-captcha-solver" THEN {[EmptyPayload EXCEPT !.py = None]}
  ELSE {[EmptyPayload EXCEPT !.py = None]} \cup
    { [EmptyPayload EXCEPT ![RequiredField(a)] = f, !.todos = td, !.model = m,
                           !.record_replay = rr] :
        f \in {Absent, "", "t"},
        td \in (IF a \in TaskerActions THEN {Absent, "[]", "list", "str"} ELSE {Absent}),
        m \in (IF a \in WrapperActions \ TaskerActions THEN {Absent, "m"} ELSE {Absent}),
        rr \in (IF a \in OpenagiActions THEN {Absent, None, "False", "True"} ELSE {Absent}) }

\* ------------------------------------------------------------ platform log
\* faulty variant of Call: the stop and download requests get the replay id
\* where the session id belongs, and the session id where the replay id belongs
CallSwappedIds(op, id, rid) ==
  [op |-> op, id |-> IF op \in {"stop", "download"} THEN rid ELSE id,
   rid |-> IF op \in {"stop", "download"} THEN id ELSE rid, secs |-> 0]

\* One call to the platform: the operation, the session id and the replay id
\* it is given (for create and start: the id the platform returned)
Call(op, id, rid) == [op |-> op, id |-> id, rid |-> rid, secs |-> 0]
Sleep(n) == [op |-> "sleep", id |-> None, rid |-> None, secs |-> n]

ReplayOps == {"start", "stop", "list", "download"}

\* ------------------------------------------------------------------- state
VARIABLES action, payload, pc, session, log, now, start_time, replay_ready,
          exc, raised, outcome, result, success, retval, kernel_browser, thread,
          stage, replay_file, slow

vars == <<action, payload, pc, session, log, now, start_time, replay_ready,
          exc, raised, outcome, result, success, retval, kernel_browser, thread,
          stage, replay_file, slow>>

\* The dataclass default of record_replay, used when no argument is passed
RecordReplayDefault == "True"

\* KernelBrowserSession as the dataclass constructs it, given record_replay
KernelBrowserSession(rr) ==
  [viewport_width |-> 1920, viewport_height |-> 1080, stealth |-> TRUE,
   timeout_seconds |-> 300, record_replay |-> rr,
   replay_output_path |-> "replay.mp4", replay_framerate |-> 30,
   replay_grace_period |-> 5,
   session_id |-> None, live_view_url |-> None, replay_id |-> None,
   replay_view_url |-> None, kernel |-> None]

NoResult == [noresult |-> TRUE]

Init ==
  /\ action \in Actions
  /\ payload \in Payloads(action)
  /\ pc = "invoke"
  /\ session = KernelBrowserSession(RecordReplayDefault)
  /\ log = <<>>
  /\ now = 0
  /\ start_time = 0
  /\ replay_ready = FALSE
  /\ exc = <<>>
  /\ raised = {}
  /\ outcome = "running"
  /\ result = NoResult
  /\ success = FALSE
  /\ retval = NoResult
  /\ kernel_browser = None
  /\ thread = "idle"
  /\ stage = 1
  /\ replay_file = None
  /\ slow = 0


\* ------------------------------------------------------- raising, failing
\* An exception e is raised while the chain in exc is being handled: e
\* propagates and the earlier exception becomes its context.
Chain(e) == <<e>> \o exc

\* The invocation ends with e propagating to the invoker.
Fail(e) ==
  /\ exc' = Chain(e)
  /\ raised' = raised \cup {e}
  /\ outcome' = "failed"
  /\ pc' = "done"

\* ------------------------------------- oagi-cua and openagi-computer-use
\* faulty variant of OagiValidationError: the todos list is not checked
OagiValidationErrorTodosOptional(a, p) ==
  IF PayloadFalsy(p) \/ ~Truthy(Get(p, RequiredField(a)))
    THEN "ValueError:required"
  ELSE None

\* Input validation of the four KernelBrowserSession actions: the error
\* raised, or None when the payload passes.
OagiValidationError(a, p) ==
  IF PayloadFalsy(p) \/ ~Truthy(Get(p, RequiredField(a)))
    THEN "ValueError:required"
  ELSE IF a \in TaskerActions /\ (~Truthy(Get(p, "todos")) \/ ~IsList(p.todos))
    THEN "ValueError:todos"
  ELSE None

\* faulty variant of RecordReplayArg: a payload without record_replay falls
\* back to the dataclass default
RecordReplayArgClassDefault(a, p) ==
  IF a \in OpenagiActions
    THEN GetDefault(p, "record_replay", RecordReplayDefault)
    ELSE "False"

\* The record_replay argument the action passes to KernelBrowserSession.
RecordReplayArg(a, p) ==
  IF a \in OpenagiActions THEN GetDefault(p, "record_replay", "False") ELSE "False"

OagiValidate ==
  /\ pc = "invoke"
  /\ action \in WrapperActions
  /\ IF OagiValidationError(action, payload) # None
       THEN /\ Fail(OagiValidationError(action, payload))
            /\ UNCHANGED session
       ELSE /\ session' = KernelBrowserSession(RecordReplayArg(action, payload))
            /\ pc' = "aenter"
            /\ UNCHANGED <<exc, raised, outcome>>
  /\ UNCHANGED <<action, payload, log, now, start_time, replay_ready, result,
                 success, retval, kernel_browser, thread, stage, replay_file, slow>>

\* faulty variant of ShouldRecord: the recording is started whatever the flag says
ShouldRecordAlways(s) == TRUE

\* `if self.record_replay:` in __aenter__
ShouldRecord(s) == Truthy(s.record_replay)

\* __aenter__ up to the start of the recording: the client is made, the
\* browser is requested, and the ids are stored.  A raise leaves the scope
\* before it was entered, so __aexit__ does not run.
AEnter ==
  /\ pc = "aenter"
  /\ \E sid \in SessionIds, ok \in BOOLEAN :
       IF ok
         THEN /\ log' = Append(log, Call("create", sid, None))
              /\ session' = [session EXCEPT !.kernel = "client",
                                            !.session_id = sid,
                                            !.live_view_url = LiveViewUrl[sid]]
              /\ pc' = IF ShouldRecord(session) THEN "start_replay" ELSE "body"
              /\ UNCHANGED <<exc, raised, outcome>>
         ELSE /\ log' = Append(log, Call("create", None, None))
              /\ session' = [session EXCEPT !.kernel = "client"]
              /\ Fail("create")
  /\ UNCHANGED <<action, payload, now, start_time, replay_ready, result,
                 success, retval, kernel_browser, thread, stage, replay_file, slow>>

\* _start_replay, awaited inside __aenter__
StartReplay ==
  /\ pc = "start_replay"
  /\ IF session.kernel = None \/ ~Truthy(session.session_id)
       THEN /\ pc' = "body"
            /\ UNCHANGED <<session, log, exc, raised, outcome>>
       ELSE \E rid \in ReplayIds, ok \in BOOLEAN :
              IF ok
                THEN /\ log' = Append(log, Call("start", session.session_id, rid))
                     /\ session' = [session EXCEPT !.replay_id = rid]
                     /\ pc' = "body"
                     /\ UNCHANGED <<exc, raised, outcome>>
                ELSE /\ log' = Append(log, Call("start", session.session_id, None))
                     /\ Fail("start")
                     /\ UNCHANGED session
  /\ UNCHANGED <<action, payload, now, start_time, replay_ready, result,
                 success, retval, kernel_browser, thread, stage, replay_file, slow>>

\* The body of the `async with`: the agent is built and run; it returns a
\* success flag or raises.
Body ==
  /\ pc = "body"
  /\ \E ok \in BOOLEAN, b \in BOOLEAN :
       IF ok
         THEN /\ success' = b
              /\ UNCHANGED <<exc, raised>>
         ELSE /\ exc' = Chain("agent")
              /\ raised' = raised \cup {"agent"}
              /\ UNCHANGED success
  /\ pc' = "aexit"
  /\ UNCHANGED <<action, payload, session, log, now, start_time, replay_ready,
                 outcome, result, retval, kernel_browser, thread, stage,
                 replay_file, slow>>


\* --------------------------------------------------------------- teardown
\* `if self.record_replay and self.replay_id:` in __aexit__
RecordingStarted(s) == Truthy(s.record_replay) /\ Truthy(s.replay_id)

\* Where __aexit__ goes first: the recording steps, the delete, or the reset.
AExitTarget(s) ==
  IF s.kernel # None /\ Truthy(s.session_id)
    THEN IF RecordingStarted(s) THEN "stop" ELSE "delete"
    ELSE "reset"

\* faulty variant of AExit: the grace period is not waited for
AExitNoGrace ==
  /\ pc = "aexit"
  /\ pc' = AExitTarget(session)
  /\ UNCHANGED <<action, payload, session, log, now, start_time, replay_ready,
                 exc, raised, outcome, result, success, retval, kernel_browser,
                 thread, stage, replay_file, slow>>

\* __aexit__ up to the call of _stop_and_download_replay, grace period included
AExit ==
  /\ pc = "aexit"
  /\ pc' = AExitTarget(session)
  /\ IF AExitTarget(session) = "stop" /\ session.replay_grace_period > 0
       THEN /\ log' = Append(log, Sleep(session.replay_grace_period))
            /\ now' = now + session.replay_grace_period
       ELSE UNCHANGED <<log, now>>
  /\ UNCHANGED <<action, payload, session, start_time, replay_ready, exc,
                 raised, outcome, result, success, retval, kernel_browser, thread,
                 stage, replay_file, slow>>

\* max_wait of the readiness poll, in seconds
max_wait == 60

\* the sleep after the stop request and the sleep between two poll attempts
process_wait == 2
poll_interval == 1

\* faulty variant of PollContinue: the loop test ignores the elapsed time
PollContinueForever(t, st) == TRUE

\* `while time.time() - start_time < max_wait`
PollContinue(t, st) == t - st < max_wait

\* faulty variant of PollTarget: an expired poll skips the download block
PollTargetSkipsDownload(t, st) == IF PollContinue(t, st) THEN "poll_list" ELSE "delete"

\* Where the poll loop goes after its test: another attempt, or the download block
PollTarget(t, st) == IF PollContinue(t, st) THEN "poll_list" ELSE "download"

\* _stop_and_download_replay up to the poll loop: the stop request and the
\* wait for processing.  A raise of the stop request leaves __aexit__.
StopReplay ==
  /\ pc = "stop"
  /\ IF session.kernel = None \/ ~Truthy(session.session_id)
        \/ ~Truthy(session.replay_id)
       THEN /\ pc' = "delete"
            /\ UNCHANGED <<log, now, start_time, replay_ready, exc, raised, outcome>>
       ELSE \E ok \in BOOLEAN :
              IF ok
                THEN /\ log' = log \o <<Call("stop", session.session_id, session.replay_id),
                                        Sleep(process_wait)>>
                     /\ now' = now + process_wait
                     /\ start_time' = now + process_wait
                     /\ replay_ready' = FALSE
                     /\ pc' = PollTarget(now + process_wait, now + process_wait)
                     /\ UNCHANGED <<exc, raised, outcome>>
                ELSE /\ log' = Append(log, Call("stop", session.session_id, session.replay_id))
                     /\ Fail("stop")
                     /\ UNCHANGED <<now, start_time, replay_ready>>
  /\ UNCHANGED <<action, payload, session, result, success, retval, kernel_browser,
                 thread, stage, replay_file, slow>>

\* `replay.replay_id == self.replay_id` for some listed replay
Listed(s, replays) == s.replay_id \in replays

\* The seconds a replays.list call can take, given the slow calls so far
CallDurations(n) == IF n < MaxSlowCalls THEN {0, 1} ELSE {0}

\* faulty variant of PollList: an exception of replays.list is not caught
PollListPropagates ==
  /\ pc = "poll_list"
  /\ \E d \in CallDurations(slow), ok \in BOOLEAN, replays \in SUBSET ReplayIds :
       /\ log' = Append(log, Call("list", session.session_id, None))
       /\ now' = now + d
       /\ slow' = slow + d
       /\ IF ok
            THEN /\ IF Listed(session, replays)
                      THEN /\ session' = [session EXCEPT
                                  !.replay_view_url = ReplayViewUrl[session.replay_id]]
                           /\ replay_ready' = TRUE
                           /\ pc' = "download"
                      ELSE /\ pc' = "poll_sleep"
                           /\ UNCHANGED <<session, replay_ready>>
                 /\ UNCHANGED <<raised, exc, outcome>>
            ELSE /\ Fail("list")
                 /\ UNCHANGED <<session, replay_ready>>
  /\ UNCHANGED <<action, payload, start_time, result, success, retval,
                 kernel_browser, thread, stage, replay_file>>

\* One poll attempt: replays.list takes d seconds and returns the replays
\* the platform has ready, or raises; a raise is swallowed.
PollList ==
  /\ pc = "poll_list"
  /\ \E d \in CallDurations(slow), ok \in BOOLEAN, replays \in SUBSET ReplayIds :
       /\ log' = Append(log, Call("list", session.session_id, None))
       /\ now' = now + d
       /\ slow' = slow + d
       /\ IF ok /\ Listed(session, replays)
            THEN /\ session' = [session EXCEPT
                                  !.replay_view_url = ReplayViewUrl[session.replay_id]]
                 /\ replay_ready' = TRUE
                 /\ pc' = "download"
                 /\ UNCHANGED raised
            ELSE /\ raised' = IF ok THEN raised ELSE raised \cup {"list"}
                 /\ pc' = "poll_sleep"
                 /\ UNCHANGED <<session, replay_ready>>
  /\ UNCHANGED <<action, payload, start_time, exc, outcome, result, success,
                 retval, kernel_browser, thread, stage, replay_file>>

\* `await asyncio.sleep(1)` at the end of a poll attempt, then the loop test
PollSleep ==
  /\ pc = "poll_sleep"
  /\ log' = Append(log, Sleep(poll_interval))
  /\ now' = now + poll_interval
  /\ pc' = PollTarget(now + poll_interval, start_time)
  /\ UNCHANGED <<action, payload, session, start_time, replay_ready, exc,
                 raised, outcome, result, success, retval, kernel_browser, thread,
                 stage, replay_file, slow>>

\* The steps of the download block, each of which can raise
DownloadSteps == {"download", "read", "mkdir", "write"}

\* faulty variant of Download: an exception of the download block is not caught
DownloadPropagates ==
  /\ pc = "download"
  /\ log' = Append(log, Call("download", session.session_id, session.replay_id))
  /\ \/ /\ replay_file' = session.replay_output_path
        /\ pc' = "delete"
        /\ UNCHANGED <<exc, raised, outcome>>
     \/ \E e \in DownloadSteps :
          /\ Fail(e)
          /\ UNCHANGED replay_file
  /\ UNCHANGED <<action, payload, session, now, start_time, replay_ready,
                 result, success, retval, kernel_browser, thread, stage,
                 slow>>

\* The download block after the poll: it runs whether or not the poll found
\* the replay, and any exception in it is swallowed.
Download ==
  /\ pc = "download"
  /\ log' = Append(log, Call("download", session.session_id, session.replay_id))
  /\ \/ /\ replay_file' = session.replay_output_path
        /\ UNCHANGED raised
     \/ \E e \in DownloadSteps :
          /\ raised' = raised \cup {e}
          /\ UNCHANGED replay_file
  /\ pc' = "delete"
  /\ UNCHANGED <<action, payload, session, now, start_time, replay_ready, exc,
                 outcome, result, success, retval, kernel_browser, thread, stage,
                 slow>>

\* faulty variant of AfterDelete: the session is deleted before the recording is stopped
AfterDeleteThenStop(s) == IF RecordingStarted(s) THEN "stop" ELSE "reset"

\* Where __aexit__ goes after delete_by_id returned
AfterDelete(s) == "reset"

\* `self._kernel.browsers.delete_by_id(self.session_id)`; a raise leaves __aexit__
Delete ==
  /\ pc = "delete"
  /\ log' = Append(log, Call("delete", session.session_id, None))
  /\ \E ok \in BOOLEAN :
       IF ok
         THEN /\ pc' = AfterDelete(session)
              /\ UNCHANGED <<exc, raised, outcome>>
         ELSE Fail("delete")
  /\ UNCHANGED <<action, payload, session, now, start_time, replay_ready,
                 result, success, retval, kernel_browser, thread, stage, replay_file, slow>>

\* faulty variant of Reset: the client handle is kept
ResetKeepsClient ==
  /\ pc = "reset"
  /\ session' = [session EXCEPT !.session_id = None, !.replay_id = None]
  /\ pc' = "finish"
  /\ UNCHANGED <<action, payload, log, now, start_time, replay_ready, exc,
                 raised, outcome, result, success, retval, kernel_browser,
                 thread, stage, replay_file, slow>>

\* faulty variant of Reset: the replay view URL is cleared with the ids
ResetAlsoUrl ==
  /\ pc = "reset"
  /\ session' = [session EXCEPT !.session_id = None, !.replay_id = None,
                                !.kernel = None, !.replay_view_url = None]
  /\ pc' = "finish"
  /\ UNCHANGED <<action, payload, log, now, start_time, replay_ready, exc,
                 raised, outcome, result, success, retval, kernel_browser,
                 thread, stage, replay_file, slow>>

\* The last three assignments of __aexit__
Reset ==
  /\ pc = "reset"
  /\ session' = [session EXCEPT !.session_id = None, !.replay_id = None,
                                !.kernel = None]
  /\ pc' = "finish"
  /\ UNCHANGED <<action, payload, log, now, start_time, replay_ready, exc,
                 raised, outcome, result, success, retval, kernel_browser, thread,
                 stage, replay_file, slow>>

\* faulty variant of AExitReturn: __aexit__ returns a true value
AExitReturnTrue == "True"

\* What __aexit__ returns; a true value would suppress the body's exception.
AExitReturn == None

\* The text of the result field, kept as its parts
ResultText(a, p, ok) ==
  IF a \in TaskerActions
    THEN [agent |-> "TaskerAgent", arg |-> p.task, success |-> ok]
    ELSE [agent |-> "AsyncDefaultAgent",
          arg |-> GetDefault(p, "model", "lux-actor-1"), success |-> ok]

\* faulty variant of OagiResult: the replay URL is left out of the record
OagiResultNoReplayUrl(a, p, s, ok) ==
  [success |-> ok, result |-> ResultText(a, p, ok)]

\* The record a KernelBrowserSession action returns
OagiResult(a, p, s, ok) ==
  IF a \in OpenagiActions
    THEN [success |-> ok, result |-> ResultText(a, p, ok),
          replay_url |-> s.replay_view_url]
    ELSE [success |-> ok, result |-> ResultText(a, p, ok)]

\* The `async with` statement ends after __aexit__ returned: a pending
\* exception of the body propagates unless __aexit__ returned a true value.
ScopeExit ==
  /\ pc = "finish"
  /\ IF exc # <<>> /\ ~Truthy(AExitReturn)
       THEN /\ outcome' = "failed"
            /\ UNCHANGED result
       ELSE /\ outcome' = "returned"
            /\ result' = OagiResult(action, payload, session, success)
  /\ pc' = "done"
  /\ UNCHANGED <<action, payload, session, log, now, start_time, replay_ready,
                 exc, raised, success, retval, kernel_browser, thread, stage,
                 replay_file, slow>>

\* ---------------------------------------------------------------- cua-task
CuaValidationError(p) ==
  IF PayloadFalsy(p) \/ ~Truthy(Get(p, "task")) THEN "ValueError:required" ELSE None

CuaValidate ==
  /\ pc = "invoke"
  /\ action = "cua-task"
  /\ IF CuaValidationError(payload) # None
       THEN Fail(CuaValidationError(payload))
       ELSE /\ pc' = "cua_create"
            /\ UNCHANGED <<exc, raised, outcome>>
  /\ UNCHANGED <<action, payload, session, log, now, start_time, replay_ready,
                 result, success, retval, kernel_browser, thread, stage,
                 replay_file, slow>>

\* `await asyncio.to_thread(client.browsers.create, ...)`
CuaCreate ==
  /\ pc = "cua_create"
  /\ \E sid \in SessionIds, ok \in BOOLEAN :
       IF ok
         THEN /\ log' = Append(log, Call("create", sid, None))
              /\ kernel_browser' = sid
              /\ pc' = "cua_run"
              /\ UNCHANGED <<exc, raised, outcome>>
         ELSE /\ log' = Append(log, Call("create", None, None))
              /\ Fail("create")
              /\ UNCHANGED kernel_browser
  /\ UNCHANGED <<action, payload, session, now, start_time, replay_ready,
                 result, success, retval, thread, stage, replay_file, slow>>

\* `asyncio.to_thread(run_agent)` inside the try: the agent run is handed
\* to a worker thread and the coroutine waits for it.
CuaToThread ==
  /\ pc = "cua_run"
  /\ thread' = "running"
  /\ pc' = "cua_await"
  /\ UNCHANGED <<action, payload, session, log, now, start_time, replay_ready,
                 exc, raised, outcome, result, success, retval, kernel_browser,
                 stage, replay_file, slow>>

\* The shapes of the last response item's content that run_agent tells apart
ContentShapes == {"blocks", "str", "other"}

\* run_agent on the worker thread: it returns {"result": ...} or raises
RunAgent ==
  /\ thread = "running"
  /\ \/ \E shape \in ContentShapes :
          /\ retval' = [result |-> shape]
          /\ thread' = "returned"
          /\ UNCHANGED raised
     \/ /\ raised' = raised \cup {"agent"}
        /\ thread' = "raised"
        /\ UNCHANGED retval
  /\ UNCHANGED <<action, payload, pc, session, log, now, start_time,
                 replay_ready, exc, outcome, result, success, kernel_browser,
                 stage, replay_file, slow>>

\* faulty variant of AwaitDone: the coroutine goes on without awaiting the worker
AwaitDoneAlways(t) == TRUE

\* The await of to_thread completes only when the worker has finished.
AwaitDone(t) == t \in {"returned", "raised"}

\* The finally block of cua_task, entered when the await completed: the
\* delete, then the return or the propagation of the pending exception.
CuaFinally ==
  /\ pc = "cua_await"
  /\ AwaitDone(thread)
  /\ log' = Append(log, Call("delete", kernel_browser, None))
  /\ pc' = "done"
  /\ \E ok \in BOOLEAN :
       IF ok
         THEN /\ exc' = IF thread = "raised" THEN <<"agent">> ELSE <<>>
              /\ outcome' = IF thread = "raised" THEN "failed" ELSE "returned"
              /\ result' = IF thread = "raised" THEN result ELSE retval
              /\ UNCHANGED raised
         ELSE /\ exc' = IF thread = "raised" THEN <<"delete", "agent">> ELSE <<"delete">>
              /\ raised' = raised \cup {"delete"}
              /\ outcome' = "failed"
              /\ UNCHANGED result
  /\ UNCHANGED <<action, payload, session, now, start_time, replay_ready,
                 success, retval, kernel_browser, thread, stage, replay_file, slow>>

\* ----------------------------------------------------- test-captcha-solver
CaptchaStages == <<"playwright", "connect", "page", "wait", "goto", "close">>

\* `client.browsers.create(...)`, before the try
CaptchaCreate ==
  /\ pc = "invoke"
  /\ action = "test-captcha-solver"
  /\ \E sid \in SessionIds, ok \in BOOLEAN :
       IF ok
         THEN /\ log' = Append(log, Call("create", sid, None))
              /\ kernel_browser' = sid
              /\ pc' = "captcha_try"
              /\ UNCHANGED <<exc, raised, outcome>>
         ELSE /\ log' = Append(log, Call("create", None, None))
              /\ Fail("create")
              /\ UNCHANGED kernel_browser
  /\ UNCHANGED <<action, payload, session, now, start_time, replay_ready,
                 result, success, retval, thread, stage, replay_file, slow>>

\* faulty variant of OnCaptchaRaise: the try block has no finally
OnCaptchaRaiseNoFinally == "done"

\* Where control goes when a stage of the try block raises
OnCaptchaRaise == "captcha_finally"

\* One stage of the try block: it completes or raises
CaptchaStep ==
  /\ pc = "captcha_try"
  /\ \E ok \in BOOLEAN :
       IF ok
         THEN /\ stage' = IF stage < Len(CaptchaStages) THEN stage + 1 ELSE stage
              /\ pc' = IF stage < Len(CaptchaStages) THEN "captcha_try"
                                                      ELSE "captcha_finally"
              /\ UNCHANGED <<exc, raised>>
         ELSE /\ exc' = Chain(CaptchaStages[stage])
              /\ raised' = raised \cup {CaptchaStages[stage]}
              /\ pc' = OnCaptchaRaise
              /\ UNCHANGED stage
  /\ UNCHANGED <<action, payload, session, log, now, start_time, replay_ready,
                 outcome, result, success, retval, kernel_browser, thread,
                 replay_file, slow>>

ReturnedNone == [pynone |-> TRUE]

\* The finally block: the delete, then the return of None or the
\* propagation of the pending exception
CaptchaFinally ==
  /\ pc = "captcha_finally"
  /\ log' = Append(log, Call("delete", kernel_browser, None))
  /\ \E ok \in BOOLEAN :
       IF ok
         THEN /\ outcome' = IF exc # <<>> THEN "failed" ELSE "returned"
              /\ result' = IF exc # <<>> THEN result ELSE ReturnedNone
              /\ pc' = "done"
              /\ UNCHANGED <<exc, raised>>
         ELSE /\ Fail("delete")
              /\ UNCHANGED result
  /\ UNCHANGED <<action, payload, session, now, start_time, replay_ready,
                 success, retval, kernel_browser, thread, stage, replay_file, slow>>

\* ----------------------------------------------------------------- bu-task
\* `client.browser.create_session(...)`, the first statement of bu_task
BuCreate ==
  /\ pc = "invoke"
  /\ action = "bu-task"
  /\ \E sid \in SessionIds, ok \in BOOLEAN :
       IF ok
         THEN /\ log' = Append(log, Call("create", sid, None))
              /\ kernel_browser' = sid
              /\ pc' = "bu_agent"
              /\ UNCHANGED <<exc, raised, outcome>>
         ELSE /\ log' = Append(log, Call("create", None, None))
              /\ Fail("create")
              /\ UNCHANGED kernel_browser
  /\ UNCHANGED <<action, payload, session, now, start_time, replay_ready,
                 result, success, retval, thread, stage, replay_file, slow>>

\* input_data["task"]: the error the subscript raises, or None
BuSubscriptError(p) ==
  IF p.py = None THEN "TypeError"
  ELSE IF p.task = Absent THEN "KeyError"
  ELSE None

\* The Agent is built from input_data["task"]
BuAgent ==
  /\ pc = "bu_agent"
  /\ IF BuSubscriptError(payload) # None
       THEN Fail(BuSubscriptError(payload))
       ELSE /\ pc' = "bu_run"
            /\ UNCHANGED <<exc, raised, outcome>>
  /\ UNCHANGED <<action, payload, session, log, now, start_time, replay_ready,
                 result, success, retval, kernel_browser, thread, stage,
                 replay_file, slow>>

\* `await agent.run()` and the two returns; there is no delete in bu_task
BuRun ==
  /\ pc = "bu_run"
  /\ \/ /\ Fail("agent")
        /\ UNCHANGED result
     \/ \E final \in {None, "text"} :
          /\ result' = IF final # None THEN [final_result |-> final]
                                       ELSE [errors |-> "errors"]
          /\ outcome' = "returned"
          /\ pc' = "done"
          /\ UNCHANGED <<exc, raised>>
  /\ UNCHANGED <<action, payload, session, log, now, start_time, replay_ready,
                 success, retval, kernel_browser, thread, stage, replay_file, slow>>

\* ------------------------------------------------------------ specification
Next ==
  \/ OagiValidate \/ AEnter \/ StartReplay \/ Body \/ AExit \/ StopReplay
  \/ PollList \/ PollSleep \/ Download \/ Delete \/ Reset \/ ScopeExit
  \/ CuaValidate \/ CuaCreate \/ CuaToThread \/ RunAgent \/ CuaFinally
  \/ CaptchaCreate \/ CaptchaStep \/ CaptchaFinally
  \/ BuCreate \/ BuAgent \/ BuRun

Spec == Init /\ [][Next]_vars

\* The invocation is one coroutine (plus the worker thread of cua-task) that
\* the event loop keeps running: every sleep ends and every external call
\* returns or raises, so a step that can be taken is taken.
FairSpec == Spec /\ WF_vars(Next)

TypeOK ==
  /\ action \in Actions
  /\ outcome \in {"running", "failed", "returned"}
  /\ thread \in {"idle", "running", "returned", "raised"}
  /\ stage \in 1..Len(CaptchaStages)
  /\ now \in Nat

\* The actions whose entry point declares a record as its output shape
ShapedActions == WrapperActions \cup {"cua-task"}

\* The fields of the TypedDict an action declares as its return type
DeclaredShape(a) ==
  IF a \in OpenagiActions THEN {"success", "result", "replay_url"}
  ELSE IF a \in WrapperActions THEN {"success", "result"}
  ELSE {"result"}

\* ------------------------------------------------------- reading the log
Count(op) == Cardinality({i \in 1..Len(log) : log[i].op = op})
Range(q) == {q[i] : i \in 1..Len(q)}
Created == \E i \in 1..Len(log) : log[i].op = "create" /\ log[i].id # None
Terminated == pc = "done"

\* The readiness poll ran and ended without finding the recording.
PollExpired ==
  /\ Count("list") > 0
  /\ ~replay_ready
  /\ pc \notin {"poll_list", "poll_sleep"}

\* ------------------------------------------------------------------ claims
\* C1: in every terminated invocation of a KernelBrowserSession action in
\* which the wrapped work raised after the session was acquired, exactly one
\* delete-session call was made, whatever the recording calls did.
C1_DeleteOnceWhenWorkRaises ==
  (action \in WrapperActions /\ Terminated /\ "agent" \in raised)
    => Count("delete") = 1

\* C2: every terminated invocation of any action that created a session has
\* issued exactly one delete of it.
C2_EveryActionReleases ==
  (Terminated /\ Created) => Count("delete") = 1

\* C3 as stated: when the poll ended without finding the recording, the
\* session is deleted and no download call was made.
C3_NoDownloadAfterExpiry ==
  (Terminated /\ PollExpired) => (Count("delete") = 1 /\ Count("download") = 0)

\* C3 amended: when the poll ended without finding the recording, the wait
\* budget is used up, one download call is still made (its failure is
\* swallowed), and the delete-session call follows it as the last call.
C3_DeleteAfterExpiry ==
  /\ PollExpired => now - start_time >= max_wait
  /\ (Terminated /\ PollExpired) =>
       /\ Count("delete") = 1
       /\ Count("download") = 1
       /\ log[Len(log)].op = "delete"
       /\ log[Len(log) - 1].op = "download"
       /\ Range(exc) \cap (DownloadSteps \cup {"list"}) = {}

C3_Witness ==
  Terminated /\ PollExpired /\ outcome = "returned" /\ "download" \notin raised

\* C4: with recording disabled no replay start, stop, list or download call
\* is ever made, at any point of the invocation and on any exit.
C4_NoReplayCallsWhenDisabled ==
  (action \in WrapperActions /\ pc # "invoke" /\ ~Truthy(session.record_replay))
    => \A i \in 1..Len(log) : log[i].op \notin ReplayOps

C4_Witness ==
  /\ action \in OpenagiActions /\ Terminated
  /\ ~Truthy(session.record_replay)
  /\ "agent" \in raised
  /\ Count("delete") = 1

\* C5: for every action that takes a task or instruction field, an invocation
\* whose payload is missing, or whose field is missing or empty, fails and no
\* session-creation call was made.
C5_ValidationBeforeCreate ==
  (/\ Terminated
   /\ action # "test-captcha-solver"
   /\ PayloadFalsy(payload) \/ ~Truthy(Get(payload, RequiredField(action))))
    => (outcome = "failed" /\ Count("create") = 0)

\* C6: in a KernelBrowserSession action the delete-session call is the last
\* platform call: every replay call precedes it and nothing follows it.
C6_DeleteIsLast ==
  action \in WrapperActions =>
    \A i \in 1..Len(log) : log[i].op = "delete" => i = Len(log)

C6_Witness ==
  /\ action \in WrapperActions /\ Terminated
  /\ Count("stop") = 1 /\ Count("list") > 1 /\ Count("download") = 1
  /\ Count("delete") = 1

\* C7: the recording steps of teardown come in the order grace-period wait,
\* stop request, readiness polling, download: the stop directly follows the
\* grace wait, no list call precedes the stop, and the download comes after
\* the last list call, when polling has ended.
C7_RecordingStepsInOrder ==
  /\ \A i \in 1..Len(log) :
       /\ log[i].op = "stop" =>
            i > 1 /\ log[i - 1] = Sleep(session.replay_grace_period)
       /\ log[i].op = "list" =>
            \E j \in 1..(i - 1) : log[j].op = "stop"
       /\ log[i].op = "download" =>
            /\ \E j \in 1..(i - 1) : log[j].op = "list"
            /\ \A j \in (i + 1)..Len(log) : log[j].op # "list"
  /\ Count("download") > 0 => pc \notin {"stop", "poll_list", "poll_sleep"}

C7_Witness ==
  /\ Terminated /\ Count("stop") = 1 /\ Count("list") > 1
  /\ Count("download") = 1 /\ replay_ready

\* C8: an exception of a readiness-poll attempt never propagates and never
\* fails the invocation; the attempt is followed by the 1-second wait, the
\* poll goes on while the elapsed time is below the maximum wait, and when
\* the budget expires teardown goes on to the delete-session call.
C8_PollErrorsSwallowed ==
  /\ []("list" \notin Range(exc))
  /\ []((Terminated /\ "list" \in raised /\ "delete" \notin raised)
          => (Count("delete") = 1
              /\ (outcome = "failed" <=> "agent" \in raised)))
  /\ [][pc = "poll_list" =>
          /\ exc' = exc /\ outcome' = outcome
          /\ pc' \in {"poll_sleep", "download"}
          /\ ("list" \in raised' \ raised) => pc' = "poll_sleep"]_vars
  /\ [][pc = "poll_sleep" =>
          /\ now' = now + 1
          /\ log' = Append(log, Sleep(1))
          /\ pc' = IF now' - start_time < 60 THEN "poll_list" ELSE "download"]_vars

C8_Witness ==
  /\ Terminated /\ "list" \in raised /\ PollExpired
  /\ outcome = "returned" /\ Count("delete") = 1

\* C9: in test-captcha-solver a terminated invocation that created a session
\* has issued exactly one delete, for that session, also when a stage of the
\* browser work raised; one whose create call failed has issued none.
C9_CaptchaBalanced ==
  action = "test-captcha-solver" =>
    /\ Count("delete") <= 1
    /\ \A i \in 1..Len(log) : log[i].op = "delete" => log[i].id = kernel_browser
    /\ Terminated => Count("delete") = (IF Created THEN 1 ELSE 0)

C9_Witness ==
  /\ action = "test-captcha-solver" /\ Terminated
  /\ "goto" \in raised /\ Count("create") = 1 /\ Count("delete") = 1
  /\ outcome = "failed"

\* C10 as stated: when session creation or the agent run raised, the
\* invocation fails with that error propagating and returns no result.
C10_ErrorPropagatesAsRaised ==
  \A e \in {"create", "agent"} :
    (Terminated /\ e \in raised) =>
      (outcome = "failed" /\ result = NoResult /\ exc # <<>> /\ exc[1] = e)

\* C10 amended: when session creation or the agent run raised, the
\* invocation fails and returns no result; that error propagates, unless a
\* teardown call (the replay stop or the delete) raised afterwards, and then
\* the teardown error propagates with that error as its context.
C10_ErrorNotRecovered ==
  \A e \in {"create", "agent"} :
    (Terminated /\ e \in raised) =>
      /\ outcome = "failed"
      /\ result = NoResult
      /\ e \in Range(exc)
      /\ exc[1] # e => (exc[1] \in {"stop", "delete"} /\ exc[2] = e)

C10_Witness ==
  /\ action \in WrapperActions /\ Terminated
  /\ exc = <<"agent">> /\ Count("delete") = 1 /\ outcome = "failed"

StartedReplays ==
  {log[i].rid : i \in {j \in 1..Len(log) : log[j].op = "start" /\ log[j].rid # None}}

\* C12: in the openagi-computer-use actions the returned replay_url is the
\* view URL of the recording started for this invocation when recording was
\* enabled and the poll found it, and null when recording was disabled or
\* the poll never found it; the session object still holds that URL after
\* the scope has exited.
C12_ReplayUrlOfStartedRecording ==
  (outcome = "returned" /\ action \in OpenagiActions) =>
    /\ (payload.record_replay = "True" /\ replay_ready) =>
         \E r \in StartedReplays :
           StartedReplays = {r} /\ result.replay_url = ReplayViewUrl[r]
    /\ (payload.record_replay # "True" \/ ~replay_ready) =>
         result.replay_url = None
    /\ session.replay_view_url = result.replay_url
    /\ session.session_id = None /\ session.kernel = None

C12_Witness ==
  /\ outcome = "returned" /\ action \in OpenagiActions
  /\ replay_ready /\ result.replay_url = "view-r2"

\* C13 as stated: a tasker invocation with a non-empty task and no todos
\* field passes input validation and goes on to acquire a session.
C13_TodosOptional ==
  (/\ action \in TaskerActions /\ pc # "invoke"
   /\ payload.py # None /\ Truthy(payload.task) /\ payload.todos = Absent)
    => (pc # "done" \/ Count("create") > 0)

\* C13 amended: in the tasker actions the todos list is required: with a
\* non-empty task, a missing, empty or non-list todos field fails validation
\* with an error before any platform call, and only a non-empty list passes
\* validation and goes on to acquire a session.
C13_TodosRequired ==
  (/\ action \in TaskerActions /\ pc # "invoke"
   /\ payload.py # None /\ Truthy(payload.task))
    => /\ payload.todos # "list" =>
            /\ pc = "done" /\ outcome = "failed"
            /\ exc = <<"ValueError:todos">>
            /\ log = <<>>
       /\ payload.todos = "list" =>
            /\ "ValueError:todos" \notin raised
            /\ pc = "done" => Count("create") > 0

C13_Witness ==
  /\ action \in TaskerActions /\ Terminated
  /\ Truthy(payload.task) /\ payload.todos = Absent
  /\ exc = <<"ValueError:todos">>

\* C14: when the replay stop request raised during teardown, the session is
\* still deleted: a delete-session call was issued before teardown ended.
C14_DeleteAfterStopRaises ==
  (action \in WrapperActions /\ Terminated /\ "stop" \in raised)
    => Count("delete") = 1

\* C15: a session created during acquisition is deleted even when the
\* replay start call raised afterwards.
C15_DeleteAfterStartRaises ==
  (action \in WrapperActions /\ Terminated /\ "start" \in raised)
    => Count("delete") = 1

\* C16: KernelBrowserSession teardown always terminates.  The poll makes at
\* most one attempt per second of the 60-second budget, with the 1-second
\* wait after every attempt that did not find the recording; the loop is
\* left only when the recording was found or the elapsed time has reached
\* 60 seconds; and an invocation that entered teardown ends.
C16_TeardownTerminates ==
  /\ [](Count("list") <= 60)
  /\ [](\A i \in 1..(Len(log) - 1) :
          /\ log[i].op = "list" => log[i + 1] \in {Sleep(1)} \cup
                 {Call("download", log[i].id, r) : r \in ReplayIds}
          /\ (log[i] = Sleep(1)) => log[i + 1].op \in {"list", "download"})
  /\ [][(pc \in {"poll_list", "poll_sleep"} /\ pc' \notin {"poll_list", "poll_sleep"})
          => (pc' = "download" /\ (replay_ready' \/ now' - start_time >= 60))]_vars
  /\ (pc = "aexit") ~> (pc = "done")

C16_Witness ==
  /\ Terminated /\ PollExpired /\ Count("list") = 60 /\ slow = 0
  /\ now - start_time = 60

\* C17: in cua-task the delete is issued only after the agent run on the
\* worker thread has returned or raised: in no reachable state has the
\* delete been issued while the worker still runs, or before it started.
C17_DeleteAfterWorkerFinished ==
  (action = "cua-task" /\ Count("delete") > 0)
    => (thread \in {"returned", "raised"} /\ pc = "done")

C17_Witness ==
  /\ action = "cua-task" /\ Terminated /\ thread = "raised"
  /\ Count("delete") = 1 /\ exc = <<"agent">>

\* C18: in the openagi-computer-use actions a payload that omits
\* record_replay, or gives it as false or null, runs with recording
\* disabled and makes no replay call, although the default of
\* KernelBrowserSession is true; a recording is started only when the
\* payload sets record_replay to true.
C18_RecordingOnlyOnRequest ==
  /\ Truthy(RecordReplayDefault)
  /\ (/\ action \in OpenagiActions /\ pc # "invoke"
      /\ OagiValidationError(action, payload) = None) =>
       /\ Truthy(session.record_replay) <=> payload.record_replay = "True"
       /\ payload.record_replay \in {Absent, None, "False"} =>
            /\ \A i \in 1..Len(log) : log[i].op \notin ReplayOps
            /\ session.replay_id = None
       /\ (payload.record_replay = "True" /\ pc \notin {"aenter", "start_replay"}
           /\ Created) => Count("start") = 1

C18_Witness ==
  /\ action \in OpenagiActions /\ outcome = "returned"
  /\ payload.record_replay = Absent /\ Count("delete") = 1

\* C19: a failure of the replay download step (the download call, reading
\* the data, making the directory, writing the file) is swallowed: it never
\* propagates, the delete-session call still follows the download call, and
\* the outcome and the returned record are what they are without it.
C19_DownloadFailureSwallowed ==
  /\ [](Range(exc) \cap DownloadSteps = {})
  /\ []((Terminated /\ raised \cap DownloadSteps # {}) =>
          /\ Count("delete") = 1
          /\ log[Len(log)].op = "delete"
          /\ log[Len(log) - 1].op = "download"
          /\ replay_file = None
          /\ outcome = "failed" <=> ("agent" \in raised \/ "delete" \in raised)
          /\ outcome = "returned" =>
               /\ result.success = success
               /\ result.replay_url = session.replay_view_url
               /\ replay_ready <=> result.replay_url # None)
  /\ [][pc = "download" =>
          /\ exc' = exc /\ outcome' = outcome /\ session' = session
          /\ pc' = "delete"]_vars

C19_Witness ==
  /\ Terminated /\ "write" \in raised /\ outcome = "returned"
  /\ result.success /\ result.replay_url # None /\ Count("delete") = 1

\* The positions of the create calls that returned a session
SuccessfulCreates == {i \in 1..Len(log) : log[i].op = "create" /\ log[i].id # None}

\* C20: in every reachable state of every action there are at most as many
\* delete calls as successful create calls, every delete and every replay
\* call (start, stop, list, download) targets the session id an earlier
\* create of this invocation returned, and after a failed create there is
\* no delete and no replay call.
C20_CallsTargetCreatedSession ==
  /\ Count("delete") <= Cardinality(SuccessfulCreates)
  /\ \A i \in 1..Len(log) :
       log[i].op \in ReplayOps \cup {"delete"} =>
         \E j \in 1..(i - 1) :
           log[j].op = "create" /\ log[j].id # None /\ log[i].id = log[j].id
  /\ (\E i \in 1..Len(log) : log[i].op = "create" /\ log[i].id = None) =>
       \A i \in 1..Len(log) : log[i].op \notin ReplayOps \cup {"delete"}

C20_Witness ==
  /\ Terminated /\ Count("create") = 1 /\ log[1].id = "s2"
  /\ Count("start") = 1 /\ Count("stop") = 1 /\ Count("list") > 0
  /\ Count("download") = 1 /\ Count("delete") = 1
\* The `kernel` property of KernelBrowserSession: the client, or the error
\* it raises when there is none
kernel(s) ==
  IF s.kernel = None
    THEN "RuntimeError:Session not initialized. Use async with context."
    ELSE s.kernel

\* The configuration fields of the dataclass
ConfigFields == {"viewport_width", "viewport_height", "stealth", "timeout_seconds",
                 "record_replay", "replay_output_path", "replay_framerate",
                 "replay_grace_period"}

\* __aexit__ of the KernelBrowserSession scope returned instead of raising:
\* the scope is about to end, or it has ended with the record returned or
\* with the agent's own exception propagating.
TeardownReturned ==
  /\ action \in WrapperActions
  /\ \/ pc = "finish"
     \/ /\ pc = "done"
        /\ \/ outcome = "returned"
           \/ outcome = "failed" /\ exc # <<>> /\ exc[1] = "agent"

\* C21: whenever the teardown of a KernelBrowserSession returned normally,
\* session_id, replay_id and the client handle are null and the kernel
\* accessor raises "Session not initialized", while the configuration fields
\* still hold what the constructor was given; and the reset step itself
\* changes neither replay_view_url nor any configuration field.
C21_TeardownResetsIdsOnly ==
  /\ [](TeardownReturned =>
          /\ session.session_id = None
          /\ session.replay_id = None
          /\ session.kernel = None
          /\ kernel(session) = "RuntimeError:Session not initialized. Use async with context."
          /\ \A f \in ConfigFields :
               session[f] = KernelBrowserSession(RecordReplayArg(action, payload))[f])
  /\ [][(pc = "reset" /\ pc' # "reset") =>
          /\ session'.session_id = None
          /\ session'.replay_id = None
          /\ session'.kernel = None
          /\ session'.replay_view_url = session.replay_view_url
          /\ \A f \in ConfigFields : session'[f] = session[f]]_vars

C21_Witness ==
  /\ TeardownReturned /\ pc = "done"
  /\ Count("delete") = 1
  /\ session.session_id = None /\ session.replay_id = None
  /\ session.kernel = None
  /\ session.replay_view_url = "view-r2"
  /\ session.record_replay = "True"

====
